---------------------------- MODULE Spec2Model ----------------------------
(***************************************************************************)
(* Video summarizer (auto_notes): extract_audio, convert_and_transcribe,   *)
(* summarize_text, convert_to_bullets and the Flask route index2.          *)
(*                                                                         *)
(* Strings are sequences of one-character strings.  Times are counted in   *)
(* ticks of 1/Resolution second, so that durations that are not a whole    *)
(* number of seconds are covered.                                          *)
(***************************************************************************)
EXTENDS Integers, Sequences, FiniteSets, TLC

\* ------------------------------------------------------------------ bounds
\* Ticks per second of the modelled durations.
Resolution == 2
\* Longest audio, in seconds.
MaxSeconds == 70

\* ------------------------------------------------------------- strings
\* Characters str.strip() removes.
Whitespace == {" ", "\n"}

Min(S) == CHOOSE x \in S : \A y \in S : x <= y
Max(S) == CHOOSE x \in S : \A y \in S : x >= y

\* str.strip(): the string without its leading and trailing whitespace.
strip(s) ==
    LET keep == {k \in 1..Len(s) : s[k] \notin Whitespace}
    IN  IF keep = {} THEN <<>> ELSE SubSeq(s, Min(keep), Max(keep))

\* ------------------------------------------------- convert_and_transcribe
chunk_length == 30

\* chunk_length in ticks.
ChunkTicks == chunk_length * Resolution

\* The durations source.DURATION may have, in ticks.
Durations == 0..(MaxSeconds * Resolution)

\* A faulty variant of Ceil: floor plus one, one chunk too many on exact multiples.
CeilFloorPlusOne(a, b) == (a \div b) + 1

\* A faulty variant of Ceil: never fewer than one chunk.
CeilAtLeastOne(a, b) == IF a = 0 THEN 1 ELSE (a + b - 1) \div b

\* math.ceil(a / b) for a >= 0, b > 0.
Ceil(a, b) == (a + b - 1) \div b

\* start = i * chunk_length
WindowStart(k) == k * ChunkTicks

\* end = min((i + 1) * chunk_length, total_duration)
WindowEnd(k, total) ==
    IF (k + 1) * ChunkTicks <= total THEN (k + 1) * ChunkTicks ELSE total

\* What recognize_google returns for a window.
RecTexts == { <<"a">>, <<"b">>, <<"c">>, <<" ", "d">>, <<>> }

Recognized(t) == [kind |-> "Recognized", text |-> t]
Unintelligible == [kind |-> "Unintelligible", text |-> <<>>]
ServiceError == [kind |-> "ServiceError", text |-> <<>>]

\* The outcomes of one recognition request: a text, sr.UnknownValueError,
\* sr.RequestError.
Outcomes == {Recognized(t) : t \in RecTexts} \cup {Unintelligible, ServiceError}

\* A faulty variant of AppendChunk: the separating space is forgotten.
AppendChunkNoSpace(buf, chunk_text) == buf \o chunk_text

\* text_output += chunk_text + " "
AppendChunk(buf, chunk_text) == buf \o chunk_text \o <<" ">>

\* A faulty variant of OnRequestError: the error is skipped like an unclear chunk.
OnRequestErrorContinue == "loop"

\* except sr.RequestError: break
OnRequestError == "return"

\* A faulty variant of NextIndex: the same window is tried again.
NextIndexRetry(k) == k

\* The for loop's next index.
NextIndex(k) == k + 1

\* ------------------------------------------------------- text functions
\* Longest input string of the text functions, in characters.
MaxTextLen == 4

\* The characters of the modelled inputs: a letter, the two whitespace
\* characters, the period and the characters of the marker "<n>".
Alphabet == {"n", " ", "\n", ".", "<", ">"}

\* The paragraph-break marker of the summarization model.
Marker == <<"<", "n", ">">>

\* The bullet sign U+2022, written here in ASCII.
BulletSign == "(U+2022)"

\* The fixed messages.  A run of characters that holds no period, no marker
\* and no whitespace at its ends is written as one character.
NoTextFound == <<"(U+26A0) No extracted text found", ".">>
ExtractNotFound == <<"(U+274C) 'extract", ".", "txt' not found", ".">>
ExtractEmpty ==
    <<"(U+26A0) 'extract", ".", "txt' is empty - nothing to summarize", ".">>
SummaryNotFound == <<"(U+274C) 'summary", ".", "txt' not found", ".">>

\* The summaries model.generate may decode to.
Summaries == { <<"s1", ".", " ", "s2", ".">>, <<"s3", "<", "n", ">", "s4">> }

RECURSIVE replace_marker(_)
\* summary.replace("<n>", ". "): every occurrence, left to right.
replace_marker(s) ==
    IF Len(s) < 3 THEN s
    ELSE IF SubSeq(s, 1, 3) = Marker
         THEN <<".", " ">> \o replace_marker(SubSeq(s, 4, Len(s)))
         ELSE <<s[1]>> \o replace_marker(Tail(s))

RECURSIVE split_dot(_)
\* s.split("."): the pieces between the periods, empty ones included.
split_dot(s) ==
    LET dots == {k \in 1..Len(s) : s[k] = "."}
    IN  IF dots = {} THEN <<s>>
        ELSE <<SubSeq(s, 1, Min(dots) - 1)>>
                 \o split_dot(SubSeq(s, Min(dots) + 1, Len(s)))

\* A faulty variant of sentences_of: the empty fragments are kept.
sentences_keep_empty(summary) ==
    LET parts == split_dot(replace_marker(summary))
    IN  [k \in 1..Len(parts) |-> strip(parts[k])]

\* [s.strip() for s in summary.replace("<n>", ". ").split(".") if s.strip()]
sentences_of(summary) ==
    LET parts == split_dot(replace_marker(summary))
        kept == SelectSeq(parts, LAMBDA f : strip(f) # <<>>)
    IN  [k \in 1..Len(kept) |-> strip(kept[k])]

RECURSIVE join_lines(_)
\* "\n".join(lines)
join_lines(lines) ==
    IF lines = <<>> THEN <<>>
    ELSE IF Len(lines) = 1 THEN lines[1]
    ELSE lines[1] \o <<"\n">> \o join_lines(Tail(lines))

\* "\n".join([f"(bullet) {s}." for s in sentences])
bullet_points(summary) ==
    LET sentences == sentences_of(summary)
    IN  join_lines([k \in 1..Len(sentences) |->
                       <<BulletSign, " ">> \o sentences[k] \o <<".">>])

\* app.py convert_to_bullets(summary)
app_convert_to_bullets(summary) == bullet_points(summary)

\* The file system: a function from the names of the files that exist to
\* their contents.
NoFiles == [f \in {} |-> <<>>]

\* open(name, "w").write(content), or a media file written under that name.
WriteFile(fs, name, content) ==
    [f \in DOMAIN fs \cup {name} |-> IF f = name THEN content ELSE fs[f]]

\* app2.py convert_to_bullets(summary_file, output_file): what it returns
\* and the files it leaves.
app2_convert_to_bullets(fs) ==
    IF "summary.txt" \notin DOMAIN fs
      THEN [ret |-> SummaryNotFound, files |-> fs]
      ELSE LET bullets == bullet_points(strip(fs["summary.txt"]))
           IN  [ret |-> bullets,
                files |-> WriteFile(fs, "bullet_summary.txt", bullets)]

\* app.py summarize_text(text), gen being what the model would generate:
\* what it returns and how many times it calls model.generate.
app_summarize_text(text, gen) ==
    IF text = <<>>
      THEN [ret |-> NoTextFound, calls |-> 0]
      ELSE [ret |-> gen, calls |-> 1]

\* app2.py summarize_text(input_file, output_file), gen being what the model
\* would generate: what it returns, its calls of model.generate, and the
\* files it leaves.
app2_summarize_text(fs, gen) ==
    IF "extract.txt" \notin DOMAIN fs
      THEN [ret |-> ExtractNotFound, calls |-> 0, files |-> fs]
      ELSE LET text == strip(fs["extract.txt"])
           IN  IF text = <<>>
                 THEN [ret |-> ExtractEmpty, calls |-> 0, files |-> fs]
                 ELSE [ret |-> gen, calls |-> 1,
                       files |-> WriteFile(fs, "summary.txt", gen)]

VARIABLES
    pc,              \* where convert_and_transcribe is
    total_duration,  \* source.DURATION, in ticks
    num_chunks,
    i, start, end,   \* the loop's index and window, in ticks
    text_output,     \* the running transcript buffer
    result,          \* the value convert_and_transcribe returned
    windows,         \* history: the windows the loop generated
    reads,           \* history: the (offset, duration) slices recognizer.record read
    requests,        \* history: the window indices submitted to recognize_google
    in_flight,       \* the window indices submitted and not yet answered
    outcomes,        \* history: the outcome of each request, in order
    fn_pc,           \* a text function called on its own: "ready", then "done"
    fn_name,         \* the function that was called
    fn_input,        \* the text it was given
    fn_output,       \* what it returned
    generate_calls,  \* the number of calls of model.generate so far
    files,           \* the upload folder: file name -> content
    req              \* the Flask requests: submission -> the locals of index2

trVars == <<pc, total_duration, num_chunks, i, start, end, text_output, result,
            windows, reads, requests, in_flight, outcomes>>

fnVars == <<fn_pc, fn_name, fn_input, fn_output>>

webVars == <<generate_calls, files, req>>

vars == <<trVars, fnVars, webVars>>

TrInit ==
    /\ pc = "transcode"
    /\ total_duration = 0
    /\ num_chunks = 0
    /\ i = 0
    /\ start = 0
    /\ end = 0
    /\ text_output = <<>>
    /\ result = <<>>
    /\ windows = <<>>
    /\ reads = <<>>
    /\ requests = <<>>
    /\ in_flight = {}
    /\ outcomes = <<>>

\* AudioFileClip(audio_mp3).write_audiofile(audio_wav); clip.close()
Transcode ==
    /\ UNCHANGED <<fnVars, webVars>>
    /\ pc = "transcode"
    /\ \/ pc' = "duration"
       \/ pc' = "raised"      \* the audio cannot be decoded
    /\ UNCHANGED <<total_duration, num_chunks, i, start, end, text_output, result,
                   windows, reads, requests, in_flight, outcomes>>

\* text_output = ""; total_duration = source.DURATION;
\* num_chunks = math.ceil(total_duration / chunk_length)
ReadDuration ==
    /\ UNCHANGED <<fnVars, webVars>>
    /\ pc = "duration"
    /\ \E d \in Durations :
         /\ total_duration' = d
         /\ num_chunks' = Ceil(d, ChunkTicks)
    /\ text_output' = <<>>
    /\ i' = 0
    /\ pc' = "loop"
    /\ UNCHANGED <<start, end, result, windows, reads, requests, in_flight, outcomes>>

\* for i in range(num_chunks): start = ...; end = ...
LoopHead ==
    /\ UNCHANGED <<fnVars, webVars>>
    /\ pc = "loop"
    /\ IF i < num_chunks
         THEN /\ start' = WindowStart(i)
              /\ end' = WindowEnd(i, total_duration)
              /\ windows' = Append(windows,
                     [index |-> i, start |-> WindowStart(i),
                      end |-> WindowEnd(i, total_duration)])
              /\ pc' = "record"
         ELSE /\ pc' = "return"
              /\ UNCHANGED <<start, end, windows>>
    /\ UNCHANGED <<total_duration, num_chunks, i, text_output, result,
                   reads, requests, in_flight, outcomes>>

\* audio_data = recognizer.record(src, offset=start, duration=end - start)
Record ==
    /\ UNCHANGED <<fnVars, webVars>>
    /\ pc = "record"
    /\ reads' = Append(reads, [index |-> i, offset |-> start, duration |-> end - start])
    /\ pc' = "submit"
    /\ UNCHANGED <<total_duration, num_chunks, i, start, end, text_output, result,
                   windows, requests, in_flight, outcomes>>

\* recognizer.recognize_google(audio_data): the request is sent
Submit ==
    /\ UNCHANGED <<fnVars, webVars>>
    /\ pc = "submit"
    /\ requests' = Append(requests, i)
    /\ in_flight' = in_flight \cup {i}
    /\ pc' = "wait"
    /\ UNCHANGED <<total_duration, num_chunks, i, start, end, text_output, result,
                   windows, reads, outcomes>>

\* recognize_google returns or raises, and the try statement classifies it
Classify ==
    /\ UNCHANGED <<fnVars, webVars>>
    /\ pc = "wait"
    /\ \E o \in Outcomes :
         /\ outcomes' = Append(outcomes, o)
         /\ in_flight' = in_flight \ {i}
         /\ CASE o.kind = "Recognized" ->
                   /\ text_output' = AppendChunk(text_output, o.text)
                   /\ i' = NextIndex(i)
                   /\ pc' = "loop"
              [] o.kind = "Unintelligible" ->
                   /\ i' = NextIndex(i)
                   /\ pc' = "loop"
                   /\ UNCHANGED text_output
              [] o.kind = "ServiceError" ->
                   /\ pc' = OnRequestError
                   /\ UNCHANGED <<i, text_output>>
    /\ UNCHANGED <<total_duration, num_chunks, start, end, result,
                   windows, reads, requests>>

\* return text_output.strip()
Return ==
    /\ UNCHANGED <<fnVars, webVars>>
    /\ pc = "return"
    /\ result' = strip(text_output)
    /\ pc' = "done"
    /\ UNCHANGED <<total_duration, num_chunks, i, start, end, text_output,
                   windows, reads, requests, in_flight, outcomes>>

\* ------------------------------------------------- the Flask route index2
\* The number of submissions.
NumSubmissions == 2

Procs == 1..NumSubmissions

\* The durations of the uploaded videos, in ticks: no audio at all, less
\* than one chunk, more than one chunk.
WebDurations == {0, ChunkTicks \div 2, ChunkTicks + 1}

\* Python's None, for a text.
None == <<"None">>

\* A media file or clip: the submission whose upload it comes from, the
\* submission that wrote it, its duration in ticks, whether it has audio.
NoClip == [owner |-> 0, writer |-> 0, dur |-> 0, audio |-> FALSE]

\* What the recognition service hears in the audio of submission o.
SpeechOf(o) == <<ToString(o)>>

\* The locals of index2 and of the functions it calls, before the request.
IdleReq ==
    [pc |-> "idle",
     clip |-> NoClip,             \* extract_audio: the VideoFileClip
     clip_open |-> FALSE,         \* whether that clip is open
     total_duration |-> 0, num_chunks |-> 0, i |-> 0, text_output |-> <<>>,
     extracted_text |-> None, summary_text |-> None, bullet_text |-> None,
     sources |-> {}]    \* history: the writers of the audio data the request read

\* The requests that are not running.
Quiet == {"idle", "responded", "failed"}

TrIdle ==
    /\ pc = "unused"
    /\ total_duration = 0
    /\ num_chunks = 0
    /\ i = 0
    /\ start = 0
    /\ end = 0
    /\ text_output = <<>>
    /\ result = <<>>
    /\ windows = <<>>
    /\ reads = <<>>
    /\ requests = <<>>
    /\ in_flight = {}
    /\ outcomes = <<>>

FnIdle ==
    /\ fn_pc = "unused"
    /\ fn_name = "none"
    /\ fn_input = <<>>
    /\ fn_output = <<>>

WebInit ==
    /\ generate_calls = 0
    /\ files = NoFiles
    /\ req = [p \in Procs |-> IdleReq]

\* file.save(video_path): the upload is written to recorded.webm
Post(p) ==
    /\ req[p].pc = "idle"
    /\ \E d \in WebDurations, a \in BOOLEAN :
         files' = WriteFile(files, "recorded.webm",
                            [owner |-> p, writer |-> p, dur |-> d, audio |-> a])
    /\ req' = [req EXCEPT ![p].pc = "extract_open"]
    /\ UNCHANGED <<trVars, fnVars, generate_calls>>

\* The same, when requests are served one after the other.
PostAlone(p) ==
    /\ \A q \in Procs \ {p} : req[q].pc \in Quiet
    /\ Post(p)

\* extract_audio: clip = VideoFileClip(video_path)
ExtractOpen(p) ==
    /\ req[p].pc = "extract_open"
    /\ \/ req' = [req EXCEPT ![p].clip = files["recorded.webm"],
                             ![p].clip_open = TRUE,
                             ![p].pc = "extract_write"]
       \/ req' = [req EXCEPT ![p].pc = "failed"]     \* the file cannot be decoded
    /\ UNCHANGED <<trVars, fnVars, generate_calls, files>>

\* extract_audio: clip.audio.write_audiofile(output_path)
ExtractWrite(p) ==
    /\ req[p].pc = "extract_write"
    /\ IF ~req[p].clip.audio
         THEN \* clip.audio is None: AttributeError leaves the function
              /\ req' = [req EXCEPT ![p].pc = "failed"]
              /\ UNCHANGED files
         ELSE \/ /\ files' = WriteFile(files, "audio.mp3",
                        [owner |-> req[p].clip.owner, writer |-> p,
                         dur |-> req[p].clip.dur, audio |-> TRUE])
                 /\ req' = [req EXCEPT ![p].pc = "extract_close"]
              \/ \* the write raises
                 /\ req' = [req EXCEPT ![p].pc = "failed"]
                 /\ UNCHANGED files
    /\ UNCHANGED <<trVars, fnVars, generate_calls>>

\* extract_audio: clip.close(); return output_path
ExtractClose(p) ==
    /\ req[p].pc = "extract_close"
    /\ req' = [req EXCEPT ![p].clip_open = FALSE, ![p].pc = "transcode"]
    /\ UNCHANGED <<trVars, fnVars, generate_calls, files>>

\* convert_and_transcribe: audio.mp3 is decoded and written to audio.wav
ReqTranscode(p) ==
    /\ req[p].pc = "transcode"
    /\ files' = WriteFile(files, "audio.wav",
                          [files["audio.mp3"] EXCEPT !.writer = p])
    /\ req' = [req EXCEPT ![p].sources = @ \cup {files["audio.mp3"].writer},
                          ![p].pc = "duration"]
    /\ UNCHANGED <<trVars, fnVars, generate_calls>>

\* convert_and_transcribe: total_duration = source.DURATION; num_chunks = ...
ReqDuration(p) ==
    /\ req[p].pc = "duration"
    /\ LET wav == files["audio.wav"] IN
       req' = [req EXCEPT ![p].total_duration = wav.dur,
                          ![p].num_chunks = Ceil(wav.dur, ChunkTicks),
                          ![p].i = 0,
                          ![p].text_output = <<>>,
                          ![p].sources = @ \cup {wav.writer},
                          ![p].pc = "loop"]
    /\ UNCHANGED <<trVars, fnVars, generate_calls, files>>

\* convert_and_transcribe: one pass of the loop, the window read from
\* audio.wav, recognized and classified
ReqChunk(p) ==
    /\ req[p].pc = "loop"
    /\ req[p].i < req[p].num_chunks
    /\ LET wav == files["audio.wav"] IN
       \E kind \in {"Recognized", "Unintelligible", "ServiceError"} :
         req' = [req EXCEPT
           ![p].sources = @ \cup {wav.writer},
           ![p].text_output =
               IF kind = "Recognized" THEN AppendChunk(@, SpeechOf(wav.owner)) ELSE @,
           ![p].i = IF kind = "ServiceError" THEN @ ELSE NextIndex(@),
           ![p].pc = IF kind = "ServiceError" THEN OnRequestError ELSE "loop"]
    /\ UNCHANGED <<trVars, fnVars, generate_calls, files>>

\* convert_and_transcribe: return text_output.strip()
ReqReturn(p) ==
    /\ \/ req[p].pc = "loop" /\ req[p].i >= req[p].num_chunks
       \/ req[p].pc = "return"
    /\ req' = [req EXCEPT ![p].extracted_text = strip(req[p].text_output),
                          ![p].pc = "save_text"]
    /\ UNCHANGED <<trVars, fnVars, generate_calls, files>>

\* index2: extract.txt is written
SaveText(p) ==
    /\ req[p].pc = "save_text"
    /\ files' = WriteFile(files, "extract.txt", req[p].extracted_text)
    /\ req' = [req EXCEPT ![p].pc = "summarize"]
    /\ UNCHANGED <<trVars, fnVars, generate_calls>>

\* index2: summary_text = summarize_text("static/uploads/extract.txt")
ReqSummarize(p) ==
    /\ req[p].pc = "summarize"
    /\ \E gen \in Summaries :
         LET r == app2_summarize_text(files, gen) IN
         /\ files' = r.files
         /\ generate_calls' = generate_calls + r.calls
         /\ req' = [req EXCEPT ![p].summary_text = r.ret, ![p].pc = "bullets"]
    /\ UNCHANGED <<trVars, fnVars>>

\* index2: bullet_text = convert_to_bullets("static/uploads/summary.txt"),
\* and the page is rendered
ReqBullets(p) ==
    /\ req[p].pc = "bullets"
    /\ LET r == app2_convert_to_bullets(files) IN
         /\ files' = r.files
         /\ req' = [req EXCEPT ![p].bullet_text = r.ret, ![p].pc = "responded"]
    /\ UNCHANGED <<trVars, fnVars, generate_calls>>

\* The steps of a request after its upload was saved.
Step(p) ==
    \/ ExtractOpen(p)
    \/ ExtractWrite(p)
    \/ ExtractClose(p)
    \/ ReqTranscode(p)
    \/ ReqDuration(p)
    \/ ReqChunk(p)
    \/ ReqReturn(p)
    \/ SaveText(p)
    \/ ReqSummarize(p)
    \/ ReqBullets(p)

\* ------------------------------------------ the text functions on their own
\* The summary of the specification's example, "First sentence. Second one."
ExampleSummary == <<"First sentence", ".", " ", "Second one", ".">>

\* The input texts: every string over Alphabet of at most MaxTextLen
\* characters, and the example.
TextInputs ==
    UNION {[1..n -> Alphabet] : n \in 0..MaxTextLen} \cup {ExampleSummary}

FnInit ==
    /\ fn_pc = "ready"
    /\ fn_name = "none"
    /\ fn_input \in TextInputs
    /\ fn_output = <<>>
    /\ generate_calls = 0
    /\ files \in {NoFiles,
                  [f \in {"extract.txt", "summary.txt"} |-> fn_input]}
    /\ req = [p \in Procs |-> IdleReq]

CallAppSummarize ==
    /\ fn_pc = "ready"
    /\ \E gen \in Summaries :
         LET r == app_summarize_text(fn_input, gen) IN
         /\ fn_output' = r.ret
         /\ generate_calls' = generate_calls + r.calls
    /\ fn_name' = "app.summarize_text"
    /\ fn_pc' = "done"
    /\ UNCHANGED <<trVars, fn_input, files, req>>

CallApp2Summarize ==
    /\ fn_pc = "ready"
    /\ \E gen \in Summaries :
         LET r == app2_summarize_text(files, gen) IN
         /\ fn_output' = r.ret
         /\ generate_calls' = generate_calls + r.calls
         /\ files' = r.files
    /\ fn_name' = "app2.summarize_text"
    /\ fn_pc' = "done"
    /\ UNCHANGED <<trVars, fn_input, req>>

CallAppBullets ==
    /\ fn_pc = "ready"
    /\ fn_output' = app_convert_to_bullets(fn_input)
    /\ fn_name' = "app.convert_to_bullets"
    /\ fn_pc' = "done"
    /\ UNCHANGED <<trVars, fn_input, webVars>>

CallApp2Bullets ==
    /\ fn_pc = "ready"
    /\ LET r == app2_convert_to_bullets(files) IN
         /\ fn_output' = r.ret
         /\ files' = r.files
    /\ fn_name' = "app2.convert_to_bullets"
    /\ fn_pc' = "done"
    /\ UNCHANGED <<trVars, fn_input, generate_calls, req>>

\* ------------------------------------------------------- specifications
\* One call of convert_and_transcribe.
Init == TrInit /\ FnIdle /\ WebInit

Next ==
    \/ Transcode
    \/ ReadDuration
    \/ LoopHead
    \/ Record
    \/ Submit
    \/ Classify
    \/ Return

Spec == Init /\ [][Next]_vars

\* One call of a text function on any input.
InitFn == TrIdle /\ FnInit

NextFn ==
    \/ CallAppSummarize
    \/ CallApp2Summarize
    \/ CallAppBullets
    \/ CallApp2Bullets

SpecFn == InitFn /\ [][NextFn]_vars

\* The Flask application serving its submissions one after the other.
InitWeb == TrIdle /\ FnIdle /\ WebInit

NextSeq == \E p \in Procs : PostAlone(p) \/ Step(p)

SpecSeq == InitWeb /\ [][NextSeq]_vars

\* The Flask application serving its submissions concurrently.
NextConc == \E p \in Procs : Post(p) \/ Step(p)

SpecConc == InitWeb /\ [][NextConc]_vars

\* ------------------------------------------- claims on the transcription
\* The texts of the Recognized outcomes of os, in order.
RecognizedTexts(os) ==
    LET rec == SelectSeq(os, LAMBDA o : o.kind = "Recognized")
    IN  [k \in 1..Len(rec) |-> rec[k].text]

RECURSIVE JoinSpace(_)
\* " ".join(ts)
JoinSpace(ts) ==
    IF ts = <<>> THEN <<>>
    ELSE IF Len(ts) = 1 THEN ts[1]
    ELSE ts[1] \o <<" ">> \o JoinSpace(Tail(ts))

NoEdgeWhitespace(s) ==
    s # <<>> => s[1] \notin Whitespace /\ s[Len(s)] \notin Whitespace

NoServiceError(os) == \A k \in 1..Len(os) : os[k].kind # "ServiceError"

\* C1: when no window's outcome is a ServiceError, every window gets an
\* outcome and the returned transcript is the texts of the Recognized
\* outcomes, in window order, joined by one space and trimmed: it has no
\* leading or trailing whitespace, and Unintelligible windows add nothing.
C1_TranscriptIsJoin ==
    (pc = "done" /\ NoServiceError(outcomes)) =>
        /\ Len(outcomes) = num_chunks
        /\ result = strip(JoinSpace(RecognizedTexts(outcomes)))
        /\ NoEdgeWhitespace(result)

C1_Witness ==
    /\ pc = "done"
    /\ outcomes = <<Recognized(<<"a">>), Unintelligible, Recognized(<<"b">>)>>
    /\ result = <<"a", " ", "b">>

\* C2: when window k's outcome is the first ServiceError, it is the last
\* outcome of the run: no window after k is generated, read or submitted,
\* the buffer holds what windows 0..k-1 put there, and the function returns
\* normally the trimmed transcript of windows 0..k-1.
C2_StopsAtServiceError ==
    \A k \in 1..Len(outcomes) :
        outcomes[k].kind = "ServiceError" =>
            LET before == SubSeq(outcomes, 1, k - 1) IN
            /\ k = Len(outcomes)
            /\ pc \in {"return", "done"}
            /\ \A w \in 1..Len(windows) : windows[w].index <= k - 1
            /\ \A r \in 1..Len(reads) : reads[r].index <= k - 1
            /\ \A q \in 1..Len(requests) : requests[q] <= k - 1
            /\ in_flight = {}
            /\ strip(text_output) = strip(JoinSpace(RecognizedTexts(before)))
            /\ pc = "done" => result = strip(JoinSpace(RecognizedTexts(before)))

C2_Witness ==
    /\ pc = "done"
    /\ num_chunks = 3
    /\ outcomes = <<Recognized(<<"a">>), ServiceError>>
    /\ result = <<"a">>

\* C3: the loop generates windows 0, 1, ... with start = index * chunk_length
\* and end = min(start + chunk_length, total_duration); num_chunks is the
\* ceiling of total_duration / chunk_length; the first window starts at 0,
\* each window starts where the one before ends, every window is longer than
\* zero, exactly that slice is read, and the last of the num_chunks windows
\* ends at total_duration.
C3_WindowsPartition ==
    pc \in {"loop", "record", "submit", "wait", "return", "done"} =>
        /\ num_chunks >= 0
        /\ num_chunks * ChunkTicks >= total_duration
        /\ num_chunks > 0 => (num_chunks - 1) * ChunkTicks < total_duration
        /\ Len(windows) <= num_chunks
        /\ \A k \in 1..Len(windows) :
             LET w == windows[k] IN
             /\ w.index = k - 1
             /\ w.start = (k - 1) * ChunkTicks
             /\ w.end = Min({w.start + ChunkTicks, total_duration})
             /\ w.end - w.start > 0
             /\ k = 1 => w.start = 0
             /\ k > 1 => windows[k - 1].end = w.start
             /\ k = num_chunks => w.end = total_duration
        /\ Len(reads) <= Len(windows)
        /\ \A r \in 1..Len(reads) :
             /\ reads[r].offset = windows[r].start
             /\ reads[r].duration = windows[r].end - windows[r].start
        /\ (pc = "done" /\ NoServiceError(outcomes)) => Len(windows) = num_chunks

C3_Witness ==
    /\ pc = "done"
    /\ Len(windows) = 3
    /\ Len(reads) = 3
    /\ windows[3].end = total_duration
    /\ windows[3].end - windows[3].start < ChunkTicks

\* C4: a total duration of zero gives zero chunks: no window is generated or
\* read, no recognition request is issued, and the transcript returned is the
\* empty string.
C4_ZeroDuration ==
    (pc \in {"loop", "record", "submit", "wait", "return", "done"}
       /\ total_duration = 0) =>
        /\ num_chunks = 0
        /\ windows = <<>>
        /\ reads = <<>>
        /\ requests = <<>>
        /\ outcomes = <<>>
        /\ pc \in {"loop", "return", "done"}
        /\ pc = "done" => result = <<>>

C4_Witness ==
    /\ pc = "done"
    /\ total_duration = 0
    /\ result = <<>>

\* C5: requests are issued in strictly increasing window order, each window
\* at most once, at most one is outstanding at any time, a request is issued
\* only when every earlier one has its outcome, and a run issues at most
\* num_chunks requests.
C5_OneRequestAtATime ==
    /\ Cardinality(in_flight) <= 1
    /\ in_flight # {} <=> pc = "wait"
    /\ Len(requests) = Len(outcomes) + Cardinality(in_flight)
    /\ \A j, k \in 1..Len(requests) : j < k => requests[j] < requests[k]
    /\ \A k \in 1..Len(requests) : requests[k] \in 0..(num_chunks - 1)
    /\ Len(requests) <= num_chunks

C5_Witness ==
    /\ pc = "done"
    /\ Len(requests) = 3
    /\ outcomes[1] = Unintelligible
    /\ outcomes[2] = Unintelligible


\* ------------------------------------------ claims on the text functions
\* C6: summarize_text, given a text that is empty or all whitespace, returns
\* its "nothing to summarize" message without calling model.generate, and
\* given any other text calls model.generate exactly once.
C6_BlankInputSkipsModel ==
    (/\ fn_pc = "done"
     /\ \/ fn_name = "app.summarize_text"
        \/ fn_name = "app2.summarize_text" /\ "extract.txt" \in DOMAIN files) =>
        IF strip(fn_input) = <<>>
          THEN generate_calls = 0 /\ fn_output \in {NoTextFound, ExtractEmpty}
          ELSE generate_calls = 1

\* What a fragment adds to the bullet text built so far.
FlushFragment(cur, out) ==
    IF strip(cur) = <<>> THEN out
    ELSE LET bullet == <<BulletSign, " ">> \o strip(cur) \o <<".">>
         IN  IF out = <<>> THEN bullet ELSE out \o <<"\n">> \o bullet

RECURSIVE ScanBullets(_, _, _)
\* The bullet text of s read character by character: a period and a marker
\* both end the current fragment.
ScanBullets(s, cur, out) ==
    IF s = <<>> THEN FlushFragment(cur, out)
    ELSE IF s[1] = "." THEN ScanBullets(Tail(s), <<>>, FlushFragment(cur, out))
    ELSE IF Len(s) >= 3 /\ SubSeq(s, 1, 3) = Marker
         THEN ScanBullets(SubSeq(s, 4, Len(s)), <<>>, FlushFragment(cur, out))
    ELSE ScanBullets(Tail(s), cur \o <<s[1]>>, out)

\* C7: convert_to_bullets returns, for every summary, one line
\* "(bullet) fragment." per fragment between sentence ends (a period or the
\* marker "<n>") that is not empty once trimmed, the fragment trimmed, the
\* lines in the order of the fragments; for the empty summary it returns the
\* empty text.  app2.py's variant also writes that text to
\* bullet_summary.txt.
C7_BulletsOfSummary ==
    fn_pc = "done" =>
        /\ fn_name = "app.convert_to_bullets" =>
             /\ fn_output = ScanBullets(fn_input, <<>>, <<>>)
             /\ fn_input = <<>> => fn_output = <<>>
        /\ (fn_name = "app2.convert_to_bullets" /\ "summary.txt" \in DOMAIN files) =>
             /\ fn_output = ScanBullets(fn_input, <<>>, <<>>)
             /\ fn_input = <<>> => fn_output = <<>>
             /\ files["bullet_summary.txt"] = fn_output

C7_Witness ==
    /\ fn_pc = "done"
    /\ fn_name = "app.convert_to_bullets"
    /\ fn_input = ExampleSummary
    /\ fn_output = <<BulletSign, " ", "First sentence", ".", "\n",
                     BulletSign, " ", "Second one", ".">>

\* ---------------------------------------------- claims on the Flask route
\* C8: a submission reads only extracted audio and waveform data that it
\* wrote itself.
C8_OwnArtifactsOnly ==
    \A p \in Procs : req[p].sources \subseteq {p}

\* C9: once extract_audio has returned or raised, the clip it opened is
\* closed.
C9_ClipClosedOnEveryExit ==
    \A p \in Procs :
        req[p].pc \notin {"idle", "extract_open", "extract_write", "extract_close"}
            => ~req[p].clip_open

\* C10: the bullet text a submission is answered with is the bullet
\* formatting of the summary result computed for that submission.
C10_BulletsOfOwnSummary ==
    \A p \in Procs :
        req[p].pc = "responded" =>
            req[p].bullet_text = bullet_points(req[p].summary_text)

=============================================================================
